---- MODULE Spec2Model ----
(***************************************************************************)
(* Model of the nthash32 crate (src/src/lib.rs): the two seed tables, the  *)
(* lookups h and rc, NtHashIterator::new, Iterator::next and size_hint.    *)
(*                                                                         *)
(* Representation of machine integers.  TLC integers are 32-bit signed, so *)
(* neither a u32, nor a 64-bit seed, nor MAXIMUM_K_SIZE fits in one:       *)
(*  - a u32 / u64 is the set of the positions of its 1 bits (bit 0 is the  *)
(*    least significant); xor is symmetric difference, a rotation moves    *)
(*    every position modulo 32, `as u32` keeps the positions below 32;     *)
(*  - a usize that is an input of new (k, seq.len()) is a pair <<hi, lo>>  *)
(*    standing for hi * 2^16 + lo with 0 <= lo < 2^16;                     *)
(*  - the fields of a constructed iterator are plain naturals: every       *)
(*    input for which construction succeeds has a length small enough.     *)
(* A sequence (&[u8]) is a view [pat, len]: the bytes of pat repeated up   *)
(* to length len, as "TGCAG".repeat(n) in tests/nthash.rs; a sequence no   *)
(* longer than its pattern is the pattern itself.                          *)
(***************************************************************************)
EXTENDS Integers, Sequences, FiniteSets, TLC

\* ---------------------------------------------------------------- bounds
MaxLen == 3          \* every sequence over Alphabet up to this length
MaxExtraCalls == 2   \* calls of next() made after the first None
LongLen == 35        \* length of the long sequences (windows of 32 and more)

\* ------------------------------------------------------- machine integers
Limb == 2 ^ 16

ToWide(n) == <<n \div Limb, n % Limb>>

Val(w) == w[1] * Limb + w[2]

\* a < b on usize values
WLt(a, b) == a[1] < b[1] \/ (a[1] = b[1] /\ a[2] < b[2])

\* the value of a 64-bit hexadecimal literal, most significant digit first
Hex64(d) == {4 * (16 - i) + b : i \in 1..16, b \in 0..3} \cap
            {p \in 0..63 : (d[16 - (p \div 4)] \div (2 ^ (p % 4))) % 2 = 1}

Shr(w, n) == {p - n : p \in {q \in w : q >= n}}

AsU32(w) == {p \in w : p < 32}

Xor(a, b) == (a \ b) \cup (b \ a)

\* u32::rotate_left(n) and u32::rotate_right(n): the amount counts modulo 32
RotL(w, n) == {(p + n) % 32 : p \in w}

RotR(w, n) == {(p + 32 - (n % 32)) % 32 : p \in w}

\* u32::min(a, b): the operand that lacks the highest bit they differ in
MinU32(a, b) ==
    IF a = b THEN a
    ELSE LET d == Xor(a, b)
             m == CHOOSE x \in d : \A y \in d : y <= x
         IN  IF m \in b THEN a ELSE b

\* ------------------------------------------------------------------ bytes
Byte == 0..255
bA == 65
bC == 67
bE == 69
bG == 71
bN == 78
bT == 84
ACGTN == {bA, bC, bG, bT, bN}

\* --------------------------------------------------------------- lib.rs
MAXIMUM_K_SIZE == <<65535, 65535>>

SHIFT == 0

SeedA == Hex64(<<3,12,8,11, 15,11,11,3, 9,5,12,6, 0,4,7,4>>)
SeedC == Hex64(<<3,1,9,3, 12,1,8,5, 6,2,10,0, 2,11,4,12>>)
SeedG == Hex64(<<2,0,3,2, 3,14,13,0, 8,2,5,7, 2,3,2,4>>)
SeedT == Hex64(<<2,9,5,5, 4,9,15,5, 4,11,14,2, 4,4,5,6>>)

\* mutant of H_LOOKUP: the table starts as [0; 256], so no byte is marked
HLookupDefaultZero ==
    [c \in Byte |->
        CASE c = bA -> Shr(SeedA, SHIFT)
          [] c = bC -> Shr(SeedC, SHIFT)
          [] c = bG -> Shr(SeedG, SHIFT)
          [] c = bT -> Shr(SeedT, SHIFT)
          [] OTHER  -> {}]

H_LOOKUP ==
    [c \in Byte |->
        CASE c = bA -> Shr(SeedA, SHIFT)
          [] c = bC -> Shr(SeedC, SHIFT)
          [] c = bG -> Shr(SeedG, SHIFT)
          [] c = bT -> Shr(SeedT, SHIFT)
          [] c = bN -> {}
          [] OTHER  -> {0}]

\* mutant of RC_LOOKUP: the entries of H_LOOKUP, A<->T and C<->G not swapped
RcLookupNotSwapped ==
    [c \in Byte |->
        CASE c = bA -> Shr(SeedA, SHIFT)
          [] c = bC -> Shr(SeedC, SHIFT)
          [] c = bG -> Shr(SeedG, SHIFT)
          [] c = bT -> Shr(SeedT, SHIFT)
          [] c = bN -> {}
          [] OTHER  -> {0}]

RC_LOOKUP ==
    [c \in Byte |->
        CASE c = bA -> Shr(SeedT, SHIFT)
          [] c = bC -> Shr(SeedG, SHIFT)
          [] c = bG -> Shr(SeedC, SHIFT)
          [] c = bT -> Shr(SeedA, SHIFT)
          [] c = bN -> {}
          [] OTHER  -> {0}]

\* the outcome of an expression: a value, or a panic and what it carries
Value(v) == [panic |-> "", byte |-> 0, val |-> v]
Panic(kind, c) == [panic |-> kind, byte |-> c, val |-> {}]

\* mutant of h: the value tested for is 0, the entry of N, instead of 1
hZeroSentinel(c) ==
    LET val == AsU32(H_LOOKUP[c])
    IN  IF val = {} THEN Panic("Non-ACGTN", c) ELSE Value(val)

h(c) ==
    LET val == AsU32(H_LOOKUP[c])
    IN  IF val = {0} THEN Panic("Non-ACGTN", c) ELSE Value(val)

rc(nt) ==
    LET val == AsU32(RC_LOOKUP[nt])
    IN  IF val = {0} THEN Panic("Non-ACGTN", nt) ELSE Value(val)

\* seq.len(), the byte at position i, and seq[i] (which panics past the end)
SeqLen(seq) == seq.len

ByteAt(seq, i) == seq.pat[(i % Len(seq.pat)) + 1]

SeqAt(seq, i) ==
    IF i < Val(seq.len) THEN Value(ByteAt(seq, i))
    ELSE Panic("index out of bounds", 0)

KSizeOutOfRange(k, n) == [kind |-> "KSizeOutOfRange", ksize |-> k, seq_size |-> n]
\* mutant of KSizeTooBig: the error carries the maximum instead of k
KSizeTooBigCarriesMax(k) ==
    [kind |-> "KSizeTooBig", ksize |-> MAXIMUM_K_SIZE, seq_size |-> <<0, 0>>]

KSizeTooBig(k) == [kind |-> "KSizeTooBig", ksize |-> k, seq_size |-> <<0, 0>>]
NoError == [kind |-> "", ksize |-> <<0, 0>>, seq_size |-> <<0, 0>>]

\* mutant of CheckKSize: the two checks in the other order
CheckKSizeTooBigFirst(seq, k) ==
    IF WLt(MAXIMUM_K_SIZE, k) THEN KSizeTooBig(k)
    ELSE IF WLt(SeqLen(seq), k) THEN KSizeOutOfRange(k, SeqLen(seq))
    ELSE NoError

\* the two size checks at the head of new, in the order of the code
CheckKSize(seq, k) ==
    IF WLt(SeqLen(seq), k) THEN KSizeOutOfRange(k, SeqLen(seq))
    ELSE IF WLt(MAXIMUM_K_SIZE, k) THEN KSizeTooBig(k)
    ELSE NoError

\* for (i, v) in seq[0..k].iter().enumerate() { fh ^= h(*v).rotate_left(k-i-1) }
RECURSIVE InitFh(_, _, _, _)
InitFh(seq, k, i, fh) ==
    IF i = k THEN Value(fh)
    ELSE LET r == h(ByteAt(seq, i))
         IN  IF r.panic # "" THEN r
             ELSE InitFh(seq, k, i + 1, Xor(fh, RotL(r.val, k - i - 1)))

\* for (i, v) in seq[0..k].iter().rev().enumerate() { rh ^= rc(*v).rotate_left(k-i-1) }
RECURSIVE InitRh(_, _, _, _)
InitRh(seq, k, i, rh) ==
    IF i = k THEN Value(rh)
    ELSE LET r == rc(ByteAt(seq, k - 1 - i))
         IN  IF r.panic # "" THEN r
             ELSE InitRh(seq, k, i + 1, Xor(rh, RotL(r.val, k - i - 1)))

\* mutant of NewMaxIdx: the + 1 forgotten
NewMaxIdxOneShort(n, k) == n - k

NewMaxIdx(n, k) == n - k + 1

NoIter == [seq |-> [pat |-> <<>>, len |-> <<0, 0>>], k |-> 0, fh |-> {}, rh |-> {},
           current_idx |-> 0, max_idx |-> 0]

\* NtHashIterator::new: Err(e), a panic, or Ok(iterator)
new(seq, k) ==
    LET e == CheckKSize(seq, k)
    IN  IF e.kind # "" THEN [tag |-> "Err", err |-> e, panic |-> Value({}), it |-> NoIter]
        ELSE LET kk == Val(k)
                 fh == InitFh(seq, kk, 0, {})
                 rh == InitRh(seq, kk, 0, {})
             IN  IF fh.panic # ""
                     THEN [tag |-> "panic", err |-> NoError, panic |-> fh, it |-> NoIter]
                 ELSE IF rh.panic # ""
                     THEN [tag |-> "panic", err |-> NoError, panic |-> rh, it |-> NoIter]
                 ELSE [tag |-> "Ok", err |-> NoError, panic |-> Value({}),
                       it |-> [seq |-> seq, k |-> kk, fh |-> fh.val, rh |-> rh.val,
                               current_idx |-> 0,
                               max_idx |-> NewMaxIdx(Val(SeqLen(seq)), kk)]]

None == [some |-> FALSE, val |-> {}]
Some(v) == [some |-> TRUE, val |-> v]

\* self.fh.rotate_left(1) ^ h(seqi).rotate_left(self.k as u32) ^ h(seqk)
NextFh(fh, hi, hk, k) == Xor(Xor(RotL(fh, 1), RotL(hi, k)), hk)

\* mutant of NextRh: the entering seed rotated by k instead of k - 1
NextRhRotatedByK(rh, ri, rk, n) == Xor(Xor(RotR(rh, 1), RotR(ri, 1)), RotL(rk, n + 1))

\* self.rh.rotate_right(1) ^ rc(seqi).rotate_right(1) ^ rc(seqk).rotate_left(n)
NextRh(rh, ri, rk, n) == Xor(Xor(RotR(rh, 1), RotR(ri, 1)), RotL(rk, n))

\* self.k as u32 - 1.  For k = 0 the subtraction overflows: a build with
\* overflow checks panics, a build without them wraps to 2^32 - 1, which as
\* a rotation amount is 31.
KMinusOne(k, overflow_checks) ==
    IF k # 0 THEN Value(k - 1)
    ELSE IF overflow_checks THEN Panic("attempt to subtract with overflow", 0)
    ELSE Value(31)

Returned(self, v) == [it |-> self, returned |-> TRUE, val |-> v, panic |-> Value({})]
Unwound(self, p) == [it |-> self, returned |-> FALSE, val |-> None, panic |-> p]

Exhausted(self) == self.current_idx = self.max_idx

\* Iterator::next: the iterator afterwards and the value returned, or a panic
next(self, overflow_checks) ==
    IF Exhausted(self) THEN Returned(self, None)
    ELSE IF self.current_idx = 0
        THEN Returned([self EXCEPT !.current_idx = @ + 1], Some(MinU32(self.rh, self.fh)))
    ELSE
      LET i    == self.current_idx - 1
          seqi == SeqAt(self.seq, i)
          seqk == SeqAt(self.seq, i + self.k)
      IN
      IF seqi.panic # "" THEN Unwound(self, seqi)
      ELSE IF seqk.panic # "" THEN Unwound(self, seqk)
      ELSE
      LET hi == h(seqi.val)
          hk == h(seqk.val)
      IN
      IF hi.panic # "" THEN Unwound(self, hi)
      ELSE IF hk.panic # "" THEN Unwound(self, hk)
      ELSE
      LET s1 == [self EXCEPT !.fh = NextFh(self.fh, hi.val, hk.val, self.k)]
          ri == rc(seqi.val)
          rk == rc(seqk.val)
          n  == KMinusOne(self.k, overflow_checks)
      IN
      IF ri.panic # "" THEN Unwound(s1, ri)
      ELSE IF rk.panic # "" THEN Unwound(s1, rk)
      ELSE IF n.panic # "" THEN Unwound(s1, n)
      ELSE
      LET s2 == [s1 EXCEPT !.rh = NextRh(self.rh, ri.val, rk.val, n.val),
                           !.current_idx = @ + 1]
      IN  Returned(s2, Some(MinU32(s2.rh, s2.fh)))

SomeUsize(n) == [some |-> TRUE, val |-> n]

\* Iterator::size_hint
size_hint(self) == <<self.max_idx, SomeUsize(self.max_idx)>>

\* ----------------------------------------------------------------- inputs
Alphabet == ACGTN \cup {bE}

View(s) == [pat |-> s, len |-> ToWide(Len(s))]

Repeat(s, n) == [pat |-> s, len |-> ToWide(n)]

ShortSeqs == UNION {[1..n -> Alphabet] : n \in 0..MaxLen}

\* the sequences of tests/nthash.rs and of the doc example
TestSeqs ==
    { <<bT, bG, bC, bA, bG>>,
      <<bA, bC, bG, bT, bC>>,
      <<bA, bC, bG, bT, bC, bG, bT, bC, bA, bG, bT, bC, bG, bA, bT, bG, bC, bA, bG, bT>>,
      <<bA, bC, bG, bT, bC, bG, bA, bN, bN, bG, bT, bA>>,
      <<bT, bG, bC, bA, bG, bN, bE>>,
      <<bA, bC, bT, bG, bC>> }

BigKs == {MAXIMUM_K_SIZE, <<Limb, 0>>}

\* "TGCAG".repeat(ceil(2^32 / 5)), of length 2^32 + 4
HugeSeq == [pat |-> <<bT, bG, bC, bA, bG>>, len |-> <<Limb, 4>>]

Input(s, k) == [seq |-> s, k |-> k]

Inputs ==
    UNION {{Input(View(s), ToWide(k)) : k \in 0..(Len(s) + 1)} : s \in ShortSeqs \cup TestSeqs}
    \cup UNION {{Input(Repeat(s, n), ToWide(k)) : k \in 0..(n + 1)}
                    : <<s, n>> \in TestSeqs \X {LongLen}}
    \cup {Input(View(<<c>>), ToWide(1)) : c \in Byte}
    \cup {Input(View(s), k) : s \in ShortSeqs, k \in BigKs}
    \cup {Input(HugeSeq, k) : k \in {<<Limb, 0>>, <<Limb, 4>>, <<Limb, 5>>}}

\* ------------------------------------------------------------ the program
VARIABLES seq, k, status, it, err, panic, ret, rets

vars == <<seq, k, status, it, err, panic, ret, rets>>

\* the last call and what it returned: the Option<u32> of next(), the
\* (usize, Option<usize>) of size_hint()
NoHint == <<0, [some |-> FALSE, val |-> 0]>>

Call(op, returned, val, hint) == [op |-> op, returned |-> returned, val |-> val, hint |-> hint]

NoCall == Call("", FALSE, None, NoHint)

Init ==
    /\ \E inp \in Inputs : seq = inp.seq /\ k = inp.k
    /\ status = "uninit"
    /\ it = NoIter
    /\ err = NoError
    /\ panic = Value({})
    /\ ret = NoCall
    /\ rets = <<>>

CallNew ==
    /\ status = "uninit"
    /\ LET r == new(seq, k)
       IN  /\ status' = (CASE r.tag = "Ok" -> "ready"
                           [] r.tag = "Err" -> "err"
                           [] OTHER -> "panic")
           /\ it' = r.it
           /\ err' = r.err
           /\ panic' = r.panic
           /\ ret' = Call("new", r.tag # "panic", None, NoHint)
    /\ UNCHANGED <<seq, k, rets>>

CallNext ==
    /\ status = "ready"
    /\ Len(rets) < it.max_idx + MaxExtraCalls
    /\ \E overflow_checks \in BOOLEAN :
         LET r == next(it, overflow_checks)
         IN  /\ it' = r.it
             /\ status' = (IF r.returned THEN "ready" ELSE "panic")
             /\ panic' = r.panic
             /\ ret' = Call("next", r.returned, r.val, NoHint)
             /\ rets' = (IF r.returned THEN Append(rets, r.val) ELSE rets)
    /\ UNCHANGED <<seq, k, err>>

CallSizeHint ==
    /\ status = "ready"
    /\ ret' = Call("size_hint", TRUE, None, size_hint(it))
    /\ UNCHANGED <<seq, k, status, it, err, panic, rets>>

Next == CallNew \/ CallNext \/ CallSizeHint

Spec == Init /\ [][Next]_vars

\* ------------------------------------------------- vocabulary of the claims
Small(w) == w[1] = 0

SeqSize == Val(seq.len)
KSize == Val(k)

Positions == 0..(SeqSize - 1)

\* every byte of the sequence is one of A, C, G, T, N
OverACGTN == Small(seq.len) /\ \A i \in Positions : ByteAt(seq, i) \in ACGTN

\* 1 <= k <= length (and so k <= MAXIMUM_K_SIZE: the length is small)
KWithinLength == Small(seq.len) /\ Small(k) /\ 1 <= KSize /\ KSize <= SeqSize

InvalidPositions == {i \in Positions : ByteAt(seq, i) \notin ACGTN}

\* the lowest position that holds a byte outside A, C, G, T, N
FirstInvalid == CHOOSE i \in InvalidPositions : \A j \in InvalidPositions : i <= j

\* the values returned as Some(_), in order
Yielded == SelectSeq(rets, LAMBDA r : r.some)

NoneReturned == \E j \in 1..Len(rets) : ~rets[j].some

\* window i hashed from scratch: F_i, R_i and the canonical value
RECURSIVE RefF(_, _, _, _)
RefF(s, kk, i, j) ==
    IF j = kk THEN {}
    ELSE Xor(RotL(h(ByteAt(s, i + j)).val, (kk - 1 - j) % 32), RefF(s, kk, i, j + 1))

RECURSIVE RefR(_, _, _, _)
RefR(s, kk, i, j) ==
    IF j = kk THEN {}
    ELSE Xor(RotL(rc(ByteAt(s, i + j)).val, j % 32), RefR(s, kk, i, j + 1))

RefCanonical(s, kk, i) == MinU32(RefF(s, kk, i, 0), RefR(s, kk, i, 0))

C2_YieldedCount ==
    (status # "uninit" /\ OverACGTN /\ KWithinLength) =>
        /\ status = "ready"
        /\ \A j \in 1..Len(rets) : rets[j].some <=> (j <= SeqSize - KSize + 1)

\* next() was called again after its first None, and returned None again
C2_Witness ==
    /\ OverACGTN /\ KWithinLength /\ SeqSize - KSize + 1 >= 2
    /\ Len(rets) >= SeqSize - KSize + 3
    /\ ~rets[Len(rets)].some /\ ~rets[Len(rets) - 1].some

\* C3: for any bytes and k > length, new returns Err(KSizeOutOfRange) with
\* that k and that length; it does not panic and builds no iterator.
C3_OutOfRange ==
    (status # "uninit" /\ WLt(seq.len, k)) =>
        /\ status = "err"
        /\ err.kind = "KSizeOutOfRange" /\ err.ksize = k /\ err.seq_size = seq.len
        /\ panic.panic = "" /\ ret.returned
        /\ it = NoIter

\* the error was returned for a sequence whose every byte would make a
\* lookup panic
C3_Witness ==
    /\ status = "err" /\ err.kind = "KSizeOutOfRange"
    /\ Small(seq.len) /\ SeqSize >= 2 /\ InvalidPositions = Positions

\* C4 as stated: for every k > MAXIMUM_K_SIZE, whatever the length, new
\* returns Err(KSizeTooBig(k)).
C4_TooBigWhateverLength ==
    (status # "uninit" /\ WLt(MAXIMUM_K_SIZE, k)) =>
        /\ status = "err"
        /\ err.kind = "KSizeTooBig" /\ err.ksize = k

\* C4 amended: for every k > MAXIMUM_K_SIZE with k <= length, new returns
\* Err(KSizeTooBig(k)); with k > length the error is KSizeOutOfRange.
C4_TooBigWithinLength ==
    (status # "uninit" /\ WLt(MAXIMUM_K_SIZE, k)) =>
        /\ status = "err"
        /\ ~WLt(seq.len, k) => (err.kind = "KSizeTooBig" /\ err.ksize = k)
        /\ WLt(seq.len, k) => err.kind = "KSizeOutOfRange"

C4_Witness ==
    /\ status = "err" /\ err.kind = "KSizeTooBig"
    /\ WLt(MAXIMUM_K_SIZE, k) /\ ~WLt(seq.len, k)

\* C5: with a byte outside {A,C,G,T,N}, the lowest at position p, and
\* 1 <= k <= length: no Err, no None; the run panics carrying that byte, in
\* new when p < k, else in the call of next() that follows p-k+1 values.
C5_InvalidByteAborts ==
    (~OverACGTN /\ KWithinLength) =>
        /\ status # "err"
        /\ ~NoneReturned
        /\ status = "ready" =>
              (FirstInvalid >= KSize /\ Len(rets) <= FirstInvalid - KSize + 1)
        /\ status = "panic" =>
              /\ panic.panic = "Non-ACGTN"
              /\ panic.byte = ByteAt(seq, FirstInvalid)
              /\ ~ret.returned
              /\ FirstInvalid < KSize => (ret.op = "new" /\ rets = <<>>)
              /\ FirstInvalid >= KSize =>
                    (ret.op = "next" /\ Len(rets) = FirstInvalid - KSize + 1)

\* the panic came from a call of next() after some values were returned
C5_Witness ==
    /\ ~OverACGTN /\ KWithinLength
    /\ status = "panic" /\ ret.op = "next" /\ Len(rets) >= 2

\* the reverse complement of a sequence: order reversed, A<->T, C<->G
Complement(c) ==
    CASE c = bA -> bT
      [] c = bT -> bA
      [] c = bC -> bG
      [] c = bG -> bC
      [] OTHER  -> c

ReverseComplement(s) ==
    LET n == Val(s.len)
    IN  [pat |-> [i \in 1..n |-> Complement(ByteAt(s, n - i))], len |-> s.len]

\* the outcomes of the first m calls of next() on an iterator
RECURSIVE Run(_, _)
Run(self, m) ==
    IF m = 0 THEN <<>>
    ELSE LET r == next(self, TRUE) IN <<r>> \o Run(r.it, m - 1)

\* C6: over {A,C,G,T,N} and 1 <= k <= length, the j-th value yielded for s
\* is the j-th from the end of the values yielded for the reverse complement
\* t of s, and right after it the forward hash of either iterator is the
\* reverse-complement hash of the other.
C6_StrandIndependent ==
    (status = "ready" /\ OverACGTN /\ KWithinLength) =>
        LET windows == SeqSize - KSize + 1
            other   == new(ReverseComplement(seq), k)
            run     == Run(other.it, windows)
        IN  /\ other.tag = "Ok"
            /\ \A j \in 1..Len(Yielded) :
                  /\ run[windows + 1 - j].returned
                  /\ run[windows + 1 - j].val = Yielded[j]
            /\ (Len(Yielded) >= 1 /\ ~NoneReturned) =>
                  /\ run[windows + 1 - Len(Yielded)].it.fh = it.rh
                  /\ run[windows + 1 - Len(Yielded)].it.rh = it.fh

\* all windows of a sequence that is not its own reverse complement were
\* yielded, and the two strands' hashes differ
C6_Witness ==
    /\ status = "ready" /\ OverACGTN /\ KWithinLength
    /\ Len(Yielded) = SeqSize - KSize + 1 /\ Len(Yielded) >= 3
    /\ Yielded[1] # Yielded[Len(Yielded)]
    /\ it.fh # it.rh
    /\ ReverseComplement(seq).pat # [i \in 1..SeqSize |-> ByteAt(seq, i - 1)]

\* C7 as stated: every iterator new returns has 1 <= k <= length and
\* k <= 2^32 - 1.
C7_WindowSizeAtLeastOne ==
    status = "ready" =>
        /\ Small(k) /\ it.k = KSize
        /\ 1 <= it.k /\ it.k <= SeqSize
        /\ ~WLt(MAXIMUM_K_SIZE, ToWide(it.k))

\* C8 as stated: on an iterator over {A,C,G,T,N}, before and after every
\* call of next(): 0 <= current_idx <= max_idx = length - k + 1; the call
\* returns None exactly when current_idx = max_idx and then changes nothing;
\* otherwise it adds exactly 1 to current_idx.
C8_NextStep ==
    (status = "ready" /\ OverACGTN /\ ret'.op = "next") =>
        /\ 0 <= it.current_idx /\ it.current_idx <= it.max_idx
        /\ it.max_idx = SeqSize - it.k + 1
        /\ it'.max_idx = it.max_idx
        /\ 0 <= it'.current_idx /\ it'.current_idx <= it'.max_idx
        /\ (ret'.returned /\ ret'.val = None) <=> (it.current_idx = it.max_idx)
        /\ it.current_idx = it.max_idx => it' = it
        /\ it.current_idx # it.max_idx => it'.current_idx = it.current_idx + 1

C8_CursorInvariant == [][C8_NextStep]_vars

\* what h and rc do on each of the 256 bytes, and the table entries behind it
LookupFacts ==
    /\ \A c \in Byte :
          /\ (h(c).panic = "") <=> (c \in ACGTN)
          /\ (rc(c).panic = "") <=> (c \in ACGTN)
          /\ c \notin ACGTN =>
                /\ AsU32(H_LOOKUP[c]) = {0} /\ AsU32(RC_LOOKUP[c]) = {0}
                /\ h(c).byte = c /\ rc(c).byte = c
    /\ \A a \in ACGTN \ {bN} :
          /\ h(a).val \notin {{0}, {}}
          /\ rc(a).val \notin {{0}, {}}
          /\ \A b \in ACGTN \ {bN, a} : h(a).val # h(b).val /\ rc(a).val # rc(b).val
    /\ h(bN).val = {} /\ rc(bN).val = {}
    /\ Cardinality({c \in Byte : h(c).panic # ""}) = 251

\* C9: h and rc return for exactly A, C, G, T, N and panic for the other 251
\* bytes; the four seeds' low 32 bits are pairwise distinct and none is 1 or
\* 0; N gives 0; every other byte gives 1 in both tables.  On a one-byte
\* sequence with k = 1, new therefore succeeds exactly for those five bytes,
\* with fh and rh the two seeds, and panics carrying the byte otherwise.
C9_LookupDomain ==
    /\ LookupFacts
    /\ (status # "uninit" /\ seq.len = <<0, 1>> /\ k = <<0, 1>>) =>
          LET c == ByteAt(seq, 0)
          IN  /\ (status = "ready") <=> (c \in ACGTN)
              /\ (status = "panic") <=> (c \notin ACGTN)
              /\ status = "panic" => (panic.panic = "Non-ACGTN" /\ panic.byte = c)
              /\ status = "ready" =>
                    /\ it.fh = AsU32(H_LOOKUP[c])
                    /\ it.rh = AsU32(RC_LOOKUP[c])
                    /\ (c # bN) => (it.fh # {} /\ it.fh # {0} /\ it.rh # {} /\ it.rh # {0})

\* new panicked on a one-byte sequence whose byte is none of the bytes the
\* other inputs use
C9_Witness ==
    /\ status = "panic" /\ seq.len = <<0, 1>> /\ k = <<0, 1>>
    /\ ByteAt(seq, 0) \notin Alphabet
    /\ panic.byte = ByteAt(seq, 0)

\* C10 as stated: after j calls of next(), size_hint() returns (r, Some(r))
\* with r = max(length - k + 1 - j, 0), the number of values next() will
\* still return, and changes no state.
C10_SizeHintStep ==
    (status = "ready" /\ OverACGTN /\ KWithinLength /\ ret'.op = "size_hint") =>
        LET windows == SeqSize - KSize + 1
            r       == IF Len(rets) >= windows THEN 0 ELSE windows - Len(rets)
        IN  /\ ret'.returned
            /\ ret'.hint = <<r, SomeUsize(r)>>
            /\ UNCHANGED <<seq, k, status, it, err, panic, rets>>

C10_SizeHintExact == [][C10_SizeHintStep]_vars
====
